---- MODULE Spec2Model ----
(***************************************************************************)
(* Simplevent: the subscriber registry (Event), the name-dispatch variant  *)
(* (StrEvent) and the reference-dispatch variant (RefEvent) of             *)
(* src/src/simplevent/simplevent.py.                                       *)
(*                                                                         *)
(* One dispatcher is modelled per behaviour; its class and its contract    *)
(* are chosen at construction (Init) and never change.  Every public       *)
(* operation is one action.  The variables op, err, calls, old_subs and    *)
(* chain record what the last operation was, what it raised, which         *)
(* subscribers it called (and with what), and the registry it started      *)
(* from.  A subscriber's observable state changes only when it is called,  *)
(* so calls is also the record of every change of subscriber state.        *)
(***************************************************************************)
EXTENDS Integers, Sequences, FiniteSets, TLC

VARIABLES
    kind,          \* class of the dispatcher: "StrEvent" or "RefEvent"
    _params,       \* StrEvent._params (parameter names)
    _param_types,  \* RefEvent._param_types (parameter types)
    _subs,         \* Event._subs, the registry (a Python list)
    op,            \* the last operation and its arguments
    err,           \* the exception the last operation raised ("None": it returned)
    calls,         \* the subscriber calls made by the last operation, in order
    old_subs,      \* _subs before the last operation
    ret,           \* what the last operation returned
    chain          \* bookkeeping of an add(s) immediately followed by remove(s),
                   \* and of an insert(i, s) immediately followed by an invoke

vars == <<kind, _params, _param_types, _subs, op, err, calls, old_subs, ret, chain>>

----------------------------------------------------------------------------
(* Bounds of the exploration *)

MaxSubs == 3        \* registries of at most this many entries are explored
MaxArgs == 2        \* invoke is tried with 0..MaxArgs arguments
MaxIndex == 3       \* insert is tried with indices up to MaxIndex ...
MaxNegIndex == 1    \* ... and down to -MaxNegIndex

----------------------------------------------------------------------------
(* Python values *)

None == "None"      \* Python's None; also "no exception" in err

Self == "self"      \* the dispatcher itself, as a returned value

Raised == "raised"  \* nothing was returned: the operation raised

\* Argument values handed to invoke, and their runtime types.
Values == {"T", "lst"}

TypeOf(v) == IF v = "T" THEN "str" ELSE "list"

\* getattr(t, "__origin__", None): only a parameterised generic has an origin.
Origin(t) == IF t = "list[int]" THEN "list" ELSE None

\* Argument tuples of 0..MaxArgs values.
ArgTuples == UNION {[1..n -> Values] : n \in 0..MaxArgs}

\* Error classes, by the name the source gives them.
EventCallParameterListMismatchError == "EventCallParameterListMismatchError"
SubscriberSignatureMismatchError == "SubscriberSignatureMismatchError"
SubscriberIsNotCallableError == "SubscriberIsNotCallableError"
ValueError == "ValueError"
AttributeError == "AttributeError"
TypeError == "TypeError"
SubscriberFailure == "RuntimeError"   \* raised by a subscriber's own callback

----------------------------------------------------------------------------
(* Subscribers supplied by the host code *)

\* Objects offered to a StrEvent.
StrSubscribers == {None, "obj_a", "obj_b", "obj_nomethod", "obj_attr", "obj_raises"}

\* Objects offered to a RefEvent.
RefSubscribers == {None, "obj_a",
                   "a.on_event_ref_any", "b.on_event_ref_any",
                   "b.on_event_ref_str", "raises_str", "once_str", "adds_b_str",
                   "untyped", "no_params", "two_params", "f_list"}

Subscribers == StrSubscribers \cup RefSubscribers

\* isinstance(subscriber, Callable)
IsCallable(s) == s \in RefSubscribers \ {None, "obj_a"}

\* inspect.signature(subscriber).parameters: the annotation of each parameter
\* ("empty" is Parameter.empty, an unannotated parameter).
Signature(s) ==
    CASE s \in {"a.on_event_ref_any", "b.on_event_ref_any"} -> <<"Any">>
      [] s \in {"b.on_event_ref_str", "raises_str", "once_str", "adds_b_str"}
            -> <<"str">>
      [] s = "untyped" -> <<"empty">>
      [] s = "two_params" -> <<"str", "list[int]">>
      [] s = "f_list" -> <<"list[int]">>
      [] OTHER -> <<>>

\* What getattr(subscriber, self._callback) finds on the subscriber:
\* "method" (a callable), "value" (a non-callable attribute) or "missing".
Attr(s) ==
    CASE s \in {"obj_a", "obj_b", "obj_raises"} -> "method"
      [] s = "obj_attr" -> "value"
      [] OTHER -> "missing"

\* Whether the subscriber's own callback raises when it is called.
Raises(s) == s \in {"obj_raises", "raises_str"}

\* Whether the subscriber's callback unsubscribes itself: it calls
\* remove(itself) on the dispatcher that is calling it.
Unsubscribes(s) == s = "once_str"

\* Whether the subscriber's callback subscribes another one: it calls
\* insert(0, b.on_event_ref_str) on the dispatcher that is calling it.
Subscribes(s) == s = "adds_b_str"

----------------------------------------------------------------------------
(* Python list operations *)

\* x in l
In(x, l) == \E k \in 1..Len(l) : l[k] = x

\* Variant of ListInsert that assigns l[i] = x where the index is inside the
\* list, instead of making room for x.
ListInsert_Overwrites(l, i, x) ==
    LET n == Len(l)
        j == IF i < 0 THEN (IF i + n < 0 THEN 0 ELSE i + n)
                      ELSE (IF i > n THEN n ELSE i)
    IN  SubSeq(l, 1, j) \o <<x>> \o SubSeq(l, j + 2, n)

\* l.insert(i, x): a negative index counts from the end, and the index is
\* clamped to 0..len(l).
ListInsert(l, i, x) ==
    LET n == Len(l)
        j == IF i < 0 THEN (IF i + n < 0 THEN 0 ELSE i + n)
                      ELSE (IF i > n THEN n ELSE i)
    IN  SubSeq(l, 1, j) \o <<x>> \o SubSeq(l, j + 1, n)

\* Variant of ListRemove with a slice bound off by one: the entry before the
\* match goes too.
ListRemove_OffByOne(l, x) ==
    LET k == CHOOSE k \in 1..Len(l) : l[k] = x /\ \A m \in 1..(k - 1) : l[m] # x
    IN  SubSeq(l, 1, k - 2) \o SubSeq(l, k + 1, Len(l))

\* l.remove(x) for x in l: deletes the first entry equal to x.
ListRemove(l, x) ==
    LET k == CHOOSE k \in 1..Len(l) : l[k] = x /\ \A m \in 1..(k - 1) : l[m] # x
    IN  SubSeq(l, 1, k - 1) \o SubSeq(l, k + 1, Len(l))

----------------------------------------------------------------------------
(* Validation of a subscriber; the result is the exception raised, or None *)

\* StrEvent._validate_subscriber: any subscriber is valid.
StrEvent_validate_subscriber(s) == None

\* The two tests of RefEvent._validate_subscriber's type check.
is_type_same(annotation, t) == annotation = t

is_type_any(annotation) == annotation = "empty" /\ annotation = "Any"

\* Variant of RefEvent_validate_subscriber without the "too few params" test.
RefEvent_validate_subscriber_NoTooFew(s, types) ==
    IF ~IsCallable(s) THEN SubscriberIsNotCallableError
    ELSE IF Len(Signature(s)) > Len(types) THEN SubscriberSignatureMismatchError
    ELSE IF \E i \in 1..Len(Signature(s)) :
                /\ ~is_type_same(Signature(s)[i], types[i])
                /\ ~is_type_any(Signature(s)[i])
         THEN SubscriberSignatureMismatchError
    ELSE None

\* Variant of RefEvent_validate_subscriber without the callable test.
RefEvent_validate_subscriber_NoCallableTest(s, types) ==
    IF Len(Signature(s)) > Len(types) THEN SubscriberSignatureMismatchError
    ELSE IF Len(Signature(s)) < Len(types) THEN SubscriberSignatureMismatchError
    ELSE IF \E i \in 1..Len(Signature(s)) :
                /\ ~is_type_same(Signature(s)[i], types[i])
                /\ ~is_type_any(Signature(s)[i])
         THEN SubscriberSignatureMismatchError
    ELSE None

\* RefEvent._validate_subscriber
RefEvent_validate_subscriber(s, types) ==
    IF ~IsCallable(s) THEN SubscriberIsNotCallableError
    ELSE IF Len(Signature(s)) > Len(types) THEN SubscriberSignatureMismatchError
    ELSE IF Len(Signature(s)) < Len(types) THEN SubscriberSignatureMismatchError
    ELSE IF \E i \in 1..Len(Signature(s)) :
                /\ ~is_type_same(Signature(s)[i], types[i])
                /\ ~is_type_any(Signature(s)[i])
         THEN SubscriberSignatureMismatchError
    ELSE None

\* self._validate_subscriber(subscriber), dispatched on the class of self.
_validate_subscriber(s) ==
    IF kind = "StrEvent" THEN StrEvent_validate_subscriber(s)
    ELSE RefEvent_validate_subscriber(s, _param_types)

----------------------------------------------------------------------------
(* Registry operations; the result is the new registry and the exception *)

\* Variant of Event_add that appends before it validates.
Event_add_AppendsFirst(subs, s) ==
    IF In(s, subs) THEN [subs |-> subs, err |-> _validate_subscriber(s)]
    ELSE [subs |-> Append(subs, s), err |-> _validate_subscriber(s)]

\* Variant of Event_add without the membership test.
Event_add_NoMembershipTest(subs, s) ==
    LET e == _validate_subscriber(s)
    IN  IF e # None THEN [subs |-> subs, err |-> e]
        ELSE [subs |-> Append(subs, s), err |-> None]

\* Event.add
Event_add(subs, s) ==
    LET e == _validate_subscriber(s)
    IN  IF e # None THEN [subs |-> subs, err |-> e]
        ELSE IF In(s, subs) THEN [subs |-> subs, err |-> None]
        ELSE [subs |-> Append(subs, s), err |-> None]

\* Variant of Event_insert that moves a subscriber already present to i.
Event_insert_Moves(subs, i, s) ==
    LET e == _validate_subscriber(s)
    IN  IF e # None THEN [subs |-> subs, err |-> e]
        ELSE IF In(s, subs) THEN [subs |-> ListInsert(ListRemove(subs, s), i, s), err |-> None]
        ELSE [subs |-> ListInsert(subs, i, s), err |-> None]

\* Variant of Event_insert that appends, whatever the index.
Event_insert_Appends(subs, i, s) ==
    LET e == _validate_subscriber(s)
    IN  IF e # None THEN [subs |-> subs, err |-> e]
        ELSE IF In(s, subs) THEN [subs |-> subs, err |-> None]
        ELSE [subs |-> Append(subs, s), err |-> None]

\* Event.insert
Event_insert(subs, i, s) ==
    LET e == _validate_subscriber(s)
    IN  IF e # None THEN [subs |-> subs, err |-> e]
        ELSE IF In(s, subs) THEN [subs |-> subs, err |-> None]
        ELSE [subs |-> ListInsert(subs, i, s), err |-> None]

\* Variant of Event_remove that drops the last entry (list.pop) when the
\* subscriber is present.
Event_remove_PopsLast(subs, s) ==
    IF In(s, subs) THEN [subs |-> SubSeq(subs, 1, Len(subs) - 1), err |-> None]
    ELSE [subs |-> subs, err |-> ValueError]

\* Variant of Event_remove that ignores an absent subscriber.
Event_remove_IgnoresAbsent(subs, s) ==
    IF In(s, subs) THEN [subs |-> ListRemove(subs, s), err |-> None]
    ELSE [subs |-> subs, err |-> None]

\* Event.remove: list.remove raises ValueError when the subscriber is absent.
Event_remove(subs, s) ==
    IF In(s, subs) THEN [subs |-> ListRemove(subs, s), err |-> None]
    ELSE [subs |-> subs, err |-> ValueError]

\* Variant of Event__add__ without the final "return self".
Event__add__NoReturn(subs, s) ==
    LET e == _validate_subscriber(s)
        r == Event_add(subs, s)
    IN  IF e # None THEN [subs |-> subs, err |-> e, ret |-> Raised]
        ELSE [subs |-> r.subs, err |-> r.err, ret |-> IF r.err = None THEN None ELSE Raised]

\* Event.__add__: validates, delegates to add, returns self.
Event__add__(subs, s) ==
    LET e == _validate_subscriber(s)
        r == Event_add(subs, s)
    IN  IF e # None THEN [subs |-> subs, err |-> e, ret |-> Raised]
        ELSE [subs |-> r.subs, err |-> r.err, ret |-> IF r.err = None THEN Self ELSE Raised]

\* Event.__sub__: delegates to remove, returns self.
Event__sub__(subs, s) ==
    LET r == Event_remove(subs, s)
    IN  [subs |-> r.subs, err |-> r.err, ret |-> IF r.err = None THEN Self ELSE Raised]

\* Event.__len__
count == Len(_subs)

----------------------------------------------------------------------------
(* Invocation; the result is the calls made (subscriber and payload, in    *)
(* order), the exception and the registry, which a callback may change     *)
(* while the loop runs over it                                             *)

\* The kwargs dict StrEvent.__call__ builds: kwargs[params[i]] = args[i] for
\* i in order; a dict keeps one entry per key, at the key's first position.
RECURSIVE BuildKwargs(_, _, _, _)
BuildKwargs(params, args, i, kw) ==
    IF i > Len(args) THEN kw
    ELSE IF \E j \in 1..Len(kw) : kw[j][1] = params[i]
         THEN BuildKwargs(params, args, i + 1,
                  [j \in 1..Len(kw) |->
                      IF kw[j][1] = params[i] THEN <<params[i], args[i]>> ELSE kw[j]])
         ELSE BuildKwargs(params, args, i + 1, Append(kw, <<params[i], args[i]>>))

\* Variant of Kwargs that keeps the first value given to a repeated key.
Kwargs_FirstWins(params, args) ==
    LET kw == BuildKwargs(params, args, 1, <<>>)
    IN  [f \in 1..Len(kw) |->
            <<kw[f][1],
              args[CHOOSE i \in 1..Len(args) :
                      /\ params[i] = kw[f][1]
                      /\ \A m \in 1..(i - 1) : params[m] # kw[f][1]]>>]

Kwargs(params, args) == BuildKwargs(params, args, 1, <<>>)

\* Variant of CallSubscriber that catches the failure of a callback.
CallSubscriber_CatchesFailure(s, payload, acc) ==
    LET called == [acc EXCEPT !.calls = Append(@, <<s, payload>>)]
    IN  IF Raises(s) THEN called
        ELSE IF Unsubscribes(s)
        THEN [called EXCEPT !.subs = Event_remove(acc.subs, s).subs,
                            !.err = Event_remove(acc.subs, s).err]
        ELSE IF Subscribes(s)
        THEN [called EXCEPT !.subs = Event_insert(acc.subs, 0, "b.on_event_ref_str").subs,
                            !.err = Event_insert(acc.subs, 0, "b.on_event_ref_str").err]
        ELSE called

\* The subscriber's callback runs with the given payload: it is recorded
\* as called, it may change the registry through the public operations, and
\* its failure is not caught.
CallSubscriber(s, payload, acc) ==
    LET called == [acc EXCEPT !.calls = Append(@, <<s, payload>>)]
    IN  IF Raises(s) THEN [called EXCEPT !.err = SubscriberFailure]
        ELSE IF Unsubscribes(s)
        THEN [called EXCEPT !.subs = Event_remove(acc.subs, s).subs,
                            !.err = Event_remove(acc.subs, s).err]
        ELSE IF Subscribes(s)
        THEN [called EXCEPT !.subs = Event_insert(acc.subs, 0, "b.on_event_ref_str").subs,
                            !.err = Event_insert(acc.subs, 0, "b.on_event_ref_str").err]
        ELSE called

\* The loop of StrEvent.__call__ over self._subs, from entry i on.  The list
\* iterator keeps an index into the live list acc.subs.
RECURSIVE StrFanOut(_, _, _, _)
StrFanOut(params, args, i, acc) ==
    IF i > Len(acc.subs) \/ acc.err # None THEN acc
    ELSE IF acc.subs[i] = None THEN StrFanOut(params, args, i + 1, acc)
    ELSE IF Attr(acc.subs[i]) = "missing" THEN [acc EXCEPT !.err = AttributeError]
    ELSE IF Attr(acc.subs[i]) # "method" THEN StrFanOut(params, args, i + 1, acc)
    ELSE StrFanOut(params, args, i + 1,
                   CallSubscriber(acc.subs[i], Kwargs(params, args), acc))

\* Variant of StrEvent__call__ that visits the registry from its end.
StrEvent__call__Reversed(subs, params, args) ==
    IF Len(args) # Len(params)
    THEN [calls |-> <<>>, err |-> EventCallParameterListMismatchError, subs |-> subs]
    ELSE [StrFanOut(params, args, 1,
                    [calls |-> <<>>, err |-> None,
                     subs |-> [k \in 1..Len(subs) |-> subs[Len(subs) + 1 - k]]])
            EXCEPT !.subs = subs]

\* Variant of StrEvent__call__ that rejects only too many arguments.
StrEvent__call__TooManyOnly(subs, params, args) ==
    IF Len(args) > Len(params)
    THEN [calls |-> <<>>, err |-> EventCallParameterListMismatchError, subs |-> subs]
    ELSE StrFanOut(params, args, 1, [calls |-> <<>>, err |-> None, subs |-> subs])

\* Variant of StrEvent__call__ without the "is not None" test: getattr on a
\* null entry raises AttributeError.
StrEvent__call__NoNullTest(subs, params, args) ==
    LET K == {k \in 1..Len(subs) : subs[k] = None}
        first == CHOOSE k \in K : \A m \in K : k <= m
        r == StrFanOut(params, args, 1,
                       [calls |-> <<>>, err |-> None, subs |-> SubSeq(subs, 1, first - 1)])
    IN  IF Len(args) # Len(params)
        THEN [calls |-> <<>>, err |-> EventCallParameterListMismatchError, subs |-> subs]
        ELSE IF K = {}
        THEN StrFanOut(params, args, 1, [calls |-> <<>>, err |-> None, subs |-> subs])
        ELSE [calls |-> r.calls, subs |-> subs,
              err |-> IF r.err = None THEN AttributeError ELSE r.err]

\* StrEvent.__call__
StrEvent__call__(subs, params, args) ==
    IF Len(args) # Len(params)
    THEN [calls |-> <<>>, err |-> EventCallParameterListMismatchError, subs |-> subs]
    ELSE StrFanOut(params, args, 1, [calls |-> <<>>, err |-> None, subs |-> subs])

\* isinstance(arg, cls) of RefEvent.__call__'s type check: typing.Any cannot
\* be used with isinstance, which raises TypeError.
SoftTypeCheck(arg, t) ==
    LET cls == IF Origin(t) = None THEN t ELSE Origin(t)
    IN  IF cls = "Any" THEN TypeError
        ELSE IF TypeOf(arg) # cls THEN EventCallParameterListMismatchError
        ELSE None

\* The type-check loop of RefEvent.__call__: the first failing argument raises.
RECURSIVE CheckTypes(_, _, _)
CheckTypes(types, args, i) ==
    IF i > Len(args) THEN None
    ELSE IF SoftTypeCheck(args[i], types[i]) # None THEN SoftTypeCheck(args[i], types[i])
    ELSE CheckTypes(types, args, i + 1)

\* The loop of RefEvent.__call__ over self._subs, from entry i on.  The list
\* iterator keeps an index into the live list acc.subs.
RECURSIVE RefFanOut(_, _, _)
RefFanOut(args, i, acc) ==
    IF i > Len(acc.subs) \/ acc.err # None THEN acc
    ELSE IF acc.subs[i] = None THEN RefFanOut(args, i + 1, acc)
    ELSE RefFanOut(args, i + 1, CallSubscriber(acc.subs[i], args, acc))

\* RefEvent.__call__
RefEvent__call__(subs, types, args) ==
    IF Len(args) > Len(types)
    THEN [calls |-> <<>>, err |-> EventCallParameterListMismatchError, subs |-> subs]
    ELSE IF Len(args) < Len(types)
    THEN [calls |-> <<>>, err |-> EventCallParameterListMismatchError, subs |-> subs]
    ELSE IF CheckTypes(types, args, 1) # None
    THEN [calls |-> <<>>, err |-> CheckTypes(types, args, 1), subs |-> subs]
    ELSE RefFanOut(args, 1, [calls |-> <<>>, err |-> None, subs |-> subs])

\* self.__call__(*args) on a dispatcher whose registry is subs, dispatched
\* on the class of self.
Event__call__(subs, args) ==
    IF kind = "StrEvent" THEN StrEvent__call__(subs, _params, args)
    ELSE RefEvent__call__(subs, _param_types, args)

\* Event.invoke: self.__call__(*args).
Event_invoke(args) == Event__call__(_subs, args)

----------------------------------------------------------------------------
(* Construction *)

\* StrEvent(callback, *params): the parameter names tried.
StrContracts == {<<"data">>, <<"a", "b">>, <<"a", "a">>}

\* RefEvent(*types): the parameter types tried.
RefContracts == {<<>>, <<"str">>, <<"Any">>, <<"str", "list[int]">>, <<"list[int]">>}

\* The subscribers offered to the dispatcher.  The registry operations of a
\* StrEvent do not read its parameter names, so the full range of objects is
\* offered to the one-name dispatcher and the plain ones to the others.
Offered ==
    IF kind = "RefEvent" THEN RefSubscribers
    ELSE IF _params = <<"data">> THEN StrSubscribers
    ELSE {None, "obj_a", "obj_b"}

NoOp == [name |-> "init", sub |-> None, i |-> 0, args |-> <<>>]

NoChain == [stage |-> "none", sub |-> None, n |-> 0, fresh |-> FALSE, pos |-> 0]

Init ==
    /\ kind \in {"StrEvent", "RefEvent"}
    /\ _params \in (IF kind = "StrEvent" THEN StrContracts ELSE {<<>>})
    /\ _param_types \in (IF kind = "RefEvent" THEN RefContracts ELSE {<<>>})
    /\ _subs = <<>>
    /\ op = NoOp
    /\ err = None
    /\ calls = <<>>
    /\ old_subs = <<>>
    /\ ret = None
    /\ chain = NoChain

----------------------------------------------------------------------------
(* Operations *)

\* An add(s) that returned starts a chain; a remove(s) of the same subscriber
\* right after it completes the chain.  An insert(i, s) that admitted s
\* starts a chain that records where s now is; an invoke right after it
\* completes the chain.  An admission of s that raised starts a chain too.
\* An invoke right after a chain that left s unregistered (removed again, or
\* refused) completes it.  Anything else resets it.
ChainAfter(o, e, newSubs) ==
    IF o.name = "invoke" /\ chain.stage \in {"removed", "refused"}
    THEN [chain EXCEPT !.stage = "invoked_without"]
    ELSE IF o.name \in {"add", "insert", "__add__"} /\ e # None
    THEN [stage |-> "refused", sub |-> o.sub, n |-> Len(_subs),
          fresh |-> ~In(o.sub, _subs), pos |-> 0]
    ELSE IF o.name \in {"add", "__add__"} /\ e = None
    THEN [stage |-> "added", sub |-> o.sub, n |-> Len(_subs),
          fresh |-> ~In(o.sub, _subs), pos |-> 0]
    ELSE IF o.name \in {"remove", "__sub__"} /\ chain.stage = "added" /\ chain.sub = o.sub
    THEN [chain EXCEPT !.stage = IF e = None THEN "removed" ELSE "failed"]
    ELSE IF o.name = "insert" /\ e = None /\ ~In(o.sub, _subs)
    THEN [stage |-> "inserted", sub |-> o.sub, n |-> Len(_subs), fresh |-> TRUE,
          pos |-> CHOOSE k \in 1..Len(newSubs) : newSubs[k] = o.sub]
    ELSE IF o.name = "invoke" /\ chain.stage = "inserted"
    THEN [chain EXCEPT !.stage = "invoked"]
    ELSE NoChain

\* add, insert, remove and invoke return None unless they raise.
ReturnsNone(e) == IF e = None THEN None ELSE Raised

\* The effect of one operation o: the new registry, the exception raised,
\* the calls made and the value returned.
Finish(o, newSubs, e, newCalls, r) ==
    /\ _subs' = newSubs
    /\ ret' = r
    /\ op' = o
    /\ err' = e
    /\ calls' = newCalls
    /\ old_subs' = _subs
    /\ chain' = ChainAfter(o, e, newSubs)
    /\ UNCHANGED <<kind, _params, _param_types>>

add(s) ==
    LET r == Event_add(_subs, s)
    IN  /\ Len(r.subs) <= MaxSubs
        /\ Finish([name |-> "add", sub |-> s, i |-> 0, args |-> <<>>],
                  r.subs, r.err, <<>>, ReturnsNone(r.err))

insert(i, s) ==
    LET r == Event_insert(_subs, i, s)
    IN  /\ Len(r.subs) <= MaxSubs
        /\ Finish([name |-> "insert", sub |-> s, i |-> i, args |-> <<>>],
                  r.subs, r.err, <<>>, ReturnsNone(r.err))

remove(s) ==
    LET r == Event_remove(_subs, s)
    IN  Finish([name |-> "remove", sub |-> s, i |-> 0, args |-> <<>>],
               r.subs, r.err, <<>>, ReturnsNone(r.err))

__add__(s) ==
    LET r == Event__add__(_subs, s)
    IN  /\ Len(r.subs) <= MaxSubs
        /\ Finish([name |-> "__add__", sub |-> s, i |-> 0, args |-> <<>>],
                  r.subs, r.err, <<>>, r.ret)

__sub__(s) ==
    LET r == Event__sub__(_subs, s)
    IN  Finish([name |-> "__sub__", sub |-> s, i |-> 0, args |-> <<>>],
               r.subs, r.err, <<>>, r.ret)

invoke(args) ==
    LET r == Event_invoke(args)
    IN  /\ Len(r.subs) <= MaxSubs
        /\ Finish([name |-> "invoke", sub |-> None, i |-> 0, args |-> args],
                  r.subs, r.err, r.calls, ReturnsNone(r.err))

\* The declared contract length.
Arity == IF kind = "StrEvent" THEN Len(_params) ELSE Len(_param_types)

\* invoke is tried with up to one argument more than the contract declares.
Next ==
    \/ \E s \in Offered : add(s)
    \/ \E s \in Offered, i \in (0 - MaxNegIndex)..MaxIndex : insert(i, s)
    \/ \E s \in Offered : remove(s)
    \/ \E s \in Offered : __add__(s)
    \/ \E s \in Offered : __sub__(s)
    \/ \E args \in ArgTuples : Len(args) <= Arity + 1 /\ invoke(args)

Spec == Init /\ [][Next]_vars

----------------------------------------------------------------------------
(* Vocabulary of the properties *)

IsInvoke == op.name = "invoke"

IsAdmission == op.name \in {"add", "insert", "__add__"}

IsRemoval == op.name \in {"remove", "__sub__"}

\* The arguments of the last invoke passed the arity pre-check and, for a
\* RefEvent, the type pre-check.
PreChecksPass ==
    /\ Len(op.args) = Arity
    /\ kind = "RefEvent" => CheckTypes(_param_types, op.args, 1) = None

\* No callback of the last invoke changed the registry.  (A callback of this
\* model either removes its own subscriber or inserts one other subscriber,
\* so a change made during an invoke is never undone within it.)
NoMutation == _subs = old_subs

\* The form in which a subscriber receives the arguments: positional for a
\* RefEvent, named fields for a StrEvent.
Payload(args) == IF kind = "StrEvent" THEN Kwargs(_params, args) ELSE args

\* One call, with the arguments args, to each subscriber of subs in order.
CallsTo(subs, args) == [k \in 1..Len(subs) |-> <<subs[k], Payload(args)>>]

NonNull(s) == s # None

\* The subscriber can be called by the dispatcher: it is not null and, for a
\* StrEvent, its attribute named by the callback is a callable.
Exposes(s) == s # None /\ (kind = "StrEvent" => Attr(s) = "method")

\* The subscriber is not null and has no attribute named by the callback.
LacksMethod(s) == s # None /\ kind = "StrEvent" /\ Attr(s) = "missing"

\* The part of the registry that precedes the first subscriber lacking the
\* method (the whole registry when there is none).
BeforeFirstLacking(subs) ==
    LET K == {k \in 1..Len(subs) : LacksMethod(subs[k])}
    IN  IF K = {} THEN subs
        ELSE SubSeq(subs, 1, (CHOOSE k \in K : \A m \in K : k <= m) - 1)

----------------------------------------------------------------------------
(* C1 *)

\* C1 as stated: on an invoke that passes the pre-checks and in which
\* nothing fails and no callback changes the registry, every non-null
\* subscriber of the registry is called exactly once, in registry order,
\* with the arguments of the invoke.
C1_AsStated ==
    (IsInvoke /\ PreChecksPass /\ err = None /\ NoMutation)
        => calls = CallsTo(SelectSeq(_subs, NonNull), op.args)

\* C1 amended: on an invoke that passes the pre-checks and in which no
\* subscriber's callback fails or changes the registry, the calls made are
\* exactly one call, in registry order and with the arguments of the invoke,
\* to every subscriber that exposes a callable callback (every non-null
\* subscriber of a RefEvent) and that precedes the first StrEvent subscriber
\* without the attribute, at which the invoke raises AttributeError.
C1_FanOutInRegistryOrder ==
    (IsInvoke /\ PreChecksPass /\ err # SubscriberFailure /\ NoMutation)
        => /\ calls = CallsTo(SelectSeq(BeforeFirstLacking(_subs), Exposes), op.args)
           /\ err = (IF \E k \in 1..Len(_subs) : LacksMethod(_subs[k])
                     THEN AttributeError ELSE None)

C1_Witness ==
    /\ IsInvoke /\ PreChecksPass /\ err = None
    /\ Len(calls) >= 2
    /\ Len(_subs) > Len(calls)

----------------------------------------------------------------------------
(* C2 *)

\* C2: an invoke whose number of arguments differs from the contract length
\* raises the argument-count error, calls no subscriber (so no subscriber's
\* state changes) and leaves the registry unchanged.
C2_ArityMismatchAborts ==
    (IsInvoke /\ Len(op.args) # Arity)
        => /\ err = EventCallParameterListMismatchError
           /\ calls = <<>>
           /\ _subs = old_subs

C2_Witness ==
    /\ IsInvoke /\ Len(op.args) < Arity
    /\ \E k \in 1..Len(_subs) : Exposes(_subs[k])
    /\ err = EventCallParameterListMismatchError

----------------------------------------------------------------------------
(* C3 *)

\* The argument is an instance of the declared type (of its origin, for a
\* parameterised generic); everything is an instance of Any.
InstanceOf(v, t) ==
    \/ t = "Any"
    \/ TypeOf(v) = (IF Origin(t) = None THEN t ELSE Origin(t))

\* C3: a RefEvent invoke with the right number of arguments, one of which is
\* not an instance of its declared type, raises an error of a kind other
\* than the argument-count error and calls no subscriber.
C3_TypeMismatchIsItsOwnError ==
    (/\ IsInvoke /\ kind = "RefEvent" /\ Len(op.args) = Arity
     /\ \E i \in 1..Arity : ~InstanceOf(op.args[i], _param_types[i]))
        => /\ err \notin {None, EventCallParameterListMismatchError}
           /\ calls = <<>>

----------------------------------------------------------------------------
(* C4 *)

\* C4: a StrEvent invoke with the right number of arguments and a non-null
\* subscriber without the callback attribute raises nothing because of it,
\* and calls every subscriber that exposes the method, before and after it.
C4_MissingMethodIsSkipped ==
    (/\ IsInvoke /\ kind = "StrEvent" /\ Len(op.args) = Arity
     /\ \E k \in 1..Len(_subs) : LacksMethod(_subs[k])
     /\ \A k \in 1..Len(_subs) : ~Raises(_subs[k]))
        => /\ err = None
           /\ calls = CallsTo(SelectSeq(_subs, Exposes), op.args)

----------------------------------------------------------------------------
(* C5 *)

\* The callable's parameters are as many as the contract's types, and each
\* is declared with the type at its position, or as Any, or is untyped.
MatchesContract(s) ==
    /\ IsCallable(s)
    /\ Len(Signature(s)) = Len(_param_types)
    /\ \A i \in 1..Len(Signature(s)) :
           Signature(s)[i] = _param_types[i] \/ Signature(s)[i] \in {"Any", "empty"}

\* C5: a RefEvent admits (by add, insert and the add operator) every
\* callable that matches the contract, untyped and Any parameters included.
C5_AnyOrUntypedIsAdmitted ==
    (IsAdmission /\ kind = "RefEvent" /\ MatchesContract(op.sub))
        => err = None /\ In(op.sub, _subs)

----------------------------------------------------------------------------
(* C6 *)

\* C6: a RefEvent admission of a subscriber that is not callable raises
\* SubscriberIsNotCallableError, one of a callable with another parameter
\* count raises SubscriberSignatureMismatchError, and both leave the
\* registry as it was.
C6_RejectedAdmissionKeepsRegistry ==
    (IsAdmission /\ kind = "RefEvent")
        => /\ ~IsCallable(op.sub)
                => err = SubscriberIsNotCallableError /\ _subs = old_subs
           /\ (IsCallable(op.sub) /\ Len(Signature(op.sub)) # Len(_param_types))
                => err = SubscriberSignatureMismatchError /\ _subs = old_subs

C6_Witness ==
    /\ IsAdmission /\ kind = "RefEvent"
    /\ IsCallable(op.sub) /\ Len(Signature(op.sub)) < Len(_param_types)
    /\ err = SubscriberSignatureMismatchError
    /\ Len(_subs) >= 1

----------------------------------------------------------------------------
(* C7 *)

\* C7: the registry never holds two equal subscribers.
C7_NoDuplicates ==
    \A i, j \in 1..Len(_subs) : _subs[i] = _subs[j] => i = j

C7_Witness ==
    /\ IsAdmission /\ err = None
    /\ In(op.sub, old_subs)
    /\ Len(_subs) >= 2

----------------------------------------------------------------------------
(* C8 *)

\* C8 as stated: for every registry and every subscriber s that passes
\* validation, add(s) followed by remove(s) leaves count() as it was before
\* the add.
C8_AsStated ==
    chain.stage = "removed" => count = chain.n

\* C8 amended: for every registry and every subscriber s that passes
\* validation and is not already in the registry, add(s) followed by
\* remove(s) leaves count() as it was before the add.
C8_AddThenRemoveRestoresCount ==
    (chain.stage = "removed" /\ chain.fresh) => count = chain.n

C8_Witness ==
    /\ chain.stage = "removed" /\ chain.fresh
    /\ chain.n >= 1
    /\ count = chain.n

----------------------------------------------------------------------------
(* C9 *)

\* C9: add(s) or insert(i, s) (or the add operator) of a subscriber that is
\* already in the registry returns without changing the registry.
C9_AdmissionIsIdempotent ==
    (IsAdmission /\ In(op.sub, old_subs))
        => err = None /\ _subs = old_subs

C9_Witness ==
    /\ op.name = "insert" /\ err = None
    /\ Len(old_subs) >= 2
    /\ old_subs[Len(old_subs)] = op.sub
    /\ op.i = 0

----------------------------------------------------------------------------
(* C10 *)

\* C10: remove(s), or the remove operator, of a subscriber that is not in
\* the registry raises ValueError (the library's "subscriber not found") to
\* the caller and leaves the registry unchanged.
C10_RemoveAbsentRaises ==
    (IsRemoval /\ ~In(op.sub, old_subs))
        => err = ValueError /\ _subs = old_subs

C10_Witness ==
    /\ op.name = "__sub__" /\ ~In(op.sub, old_subs)
    /\ err = ValueError
    /\ Len(_subs) >= 1

----------------------------------------------------------------------------
(* C11 *)

IsSugar == op.name \in {"__add__", "__sub__"}

\* What the direct call that an operator stands for does to a registry.
Direct(name, subs, s) ==
    IF name = "__add__" THEN Event_add(subs, s) ELSE Event_remove(subs, s)

\* C11: the add and remove operators leave the registry, and raise the
\* error, that the direct add or remove of the same subscriber gives from
\* the same registry, and when they do not raise they return the dispatcher
\* itself; so a chain of operators equals the same sequence of direct calls.
C11_SugarEqualsDirectCalls ==
    IsSugar
        => /\ _subs = Direct(op.name, old_subs, op.sub).subs
           /\ err = Direct(op.name, old_subs, op.sub).err
           /\ ret = (IF err = None THEN Self ELSE Raised)

C11_Witness ==
    /\ op.name = "__sub__" /\ ret = Self
    /\ chain.stage = "removed"
    /\ Len(_subs) >= 1

----------------------------------------------------------------------------
(* C12 *)

\* C12: a null entry of the registry is skipped by invoke.  The invoke calls
\* the subscribers, and raises the error, that it would with the null
\* entries taken out of the registry (so it never raises because of them,
\* and the subscribers before and after them are called when nothing else
\* stops the fan-out), and the registry, null entries included, is as it
\* was before the invoke.
C12_NullEntryIsSkipped ==
    (IsInvoke /\ PreChecksPass /\ In(None, old_subs))
        => /\ _subs = old_subs
           /\ calls = Event__call__(SelectSeq(old_subs, NonNull), op.args).calls
           /\ err = Event__call__(SelectSeq(old_subs, NonNull), op.args).err
           /\ (\A k \in 1..Len(old_subs) : ~LacksMethod(old_subs[k]) /\ ~Raises(old_subs[k]))
                => /\ err = None
                   /\ calls = CallsTo(SelectSeq(old_subs, Exposes), op.args)

C12_Witness ==
    /\ IsInvoke /\ PreChecksPass /\ err = None
    /\ Len(_subs) = 3 /\ _subs[2] = None
    /\ Len(calls) = 2

----------------------------------------------------------------------------
(* C13 *)

\* The subscriber's callback changes the registry when it runs.
Mutates(s) == Unsubscribes(s) \/ Subscribes(s)

\* Entry k of the registry is the first subscriber whose callback fails, and
\* the fan-out gets to it: nothing before it lacks the method or changes the
\* registry.
FailsAt(subs, k) ==
    /\ Exposes(subs[k]) /\ Raises(subs[k])
    /\ \A m \in 1..(k - 1) :
           ~Raises(subs[m]) /\ ~LacksMethod(subs[m]) /\ ~Mutates(subs[m])

----------------------------------------------------------------------------
(* C14 *)

\* The admissions less the removals that the callbacks of the last invoke
\* made: a callback that unsubscribes removes its own subscriber each time it
\* is called, and one that subscribes admits b.on_event_ref_str if it was not
\* registered.
NestedDelta ==
    (IF (\E j \in 1..Len(calls) : Subscribes(calls[j][1]))
           /\ ~In("b.on_event_ref_str", old_subs) THEN 1 ELSE 0)
    - Cardinality({j \in 1..Len(calls) : Unsubscribes(calls[j][1])})

\* C14: count() is 0 after construction, and every operation changes it by
\* exactly the admissions less the removals it made: +1 for an add or insert
\* (or add operator) that admitted a subscriber not already present, -1 for
\* a successful remove (or remove operator), 0 for a failed operation, for
\* an admission of a subscriber already present and for invoke itself (whose
\* callbacks' own admissions and removals count as such).
C14_CountIsExact ==
    /\ op.name = "init" => count = 0
    /\ IsAdmission =>
          count = Len(old_subs)
                    + (IF err = None /\ ~In(op.sub, old_subs) THEN 1 ELSE 0)
    /\ IsRemoval =>
          count = Len(old_subs) - (IF err = None THEN 1 ELSE 0)
    /\ IsInvoke => count = Len(old_subs) + NestedDelta

C14_Witness ==
    /\ op.name = "insert" /\ err = None /\ ~In(op.sub, old_subs)
    /\ op.i = 1
    /\ count = 3

----------------------------------------------------------------------------
(* C15 *)

\* A StrEvent invoke with as many arguments as the contract has names.
StrInvokeWithArity == IsInvoke /\ kind = "StrEvent" /\ Len(op.args) = Arity

\* C15 as stated: every call of such an invoke passes a field map with one
\* field per declared parameter, in which, for every position i, the i-th
\* name is bound to the i-th argument, also when the contract repeats a
\* name.
C15_AsStated ==
    StrInvokeWithArity
        => \A j \in 1..Len(calls) :
               /\ Len(calls[j][2]) = Arity
               /\ \A i \in 1..Arity :
                      \E f \in 1..Len(calls[j][2]) :
                          calls[j][2][f] = <<_params[i], op.args[i]>>

\* C15 amended: every call of such an invoke passes a field map with one
\* field per distinct declared name, and the field of a name holds the
\* argument at the last position at which the contract declares that name;
\* for a contract of pairwise distinct names that is one field per position,
\* the i-th name bound to the i-th argument.
C15_FieldsBoundByName ==
    StrInvokeWithArity
        => \A j \in 1..Len(calls) :
               LET kw == calls[j][2]
                   LastOf(name) == CHOOSE i \in 1..Arity :
                                      /\ _params[i] = name
                                      /\ \A m \in (i + 1)..Arity : _params[m] # name
               IN  /\ {kw[f][1] : f \in 1..Len(kw)} = {_params[i] : i \in 1..Arity}
                   /\ Len(kw) = Cardinality({_params[i] : i \in 1..Arity})
                   /\ \A f \in 1..Len(kw) : kw[f][2] = op.args[LastOf(kw[f][1])]

C15_Witness ==
    /\ StrInvokeWithArity /\ _params = <<"a", "b">>
    /\ op.args = <<"T", "lst">>
    /\ Len(calls) >= 2
    /\ calls[1][2] = <<(<<"a", "T">>), (<<"b", "lst">>)>>

----------------------------------------------------------------------------
(* C16 *)

\* The fan-out over subs gets to entry p: nothing before it fails, lacks the
\* method or changes the registry.
GetsTo(subs, p) ==
    \A m \in 1..(p - 1) : ~Raises(subs[m]) /\ ~LacksMethod(subs[m]) /\ ~Mutates(subs[m])

\* C16: insert(i, s) of a valid s not already present, with i >= 0, puts s
\* at position i (at the end when i > count()), adds exactly one entry and
\* keeps the other entries in their order; and an invoke right after an
\* insert that put s at some position calls s at that position of the call
\* order, after one call to each callable subscriber before it, whenever
\* the fan-out gets that far and s can be called.
C16_InsertAtIndex ==
    /\ (op.name = "insert" /\ err = None /\ ~In(op.sub, old_subs) /\ op.i >= 0)
         => LET n == Len(old_subs)
                p == (IF op.i > n THEN n ELSE op.i) + 1
            IN  /\ count = n + 1
                /\ _subs[p] = op.sub
                /\ old_subs = [k \in 1..n |-> IF k < p THEN _subs[k] ELSE _subs[k + 1]]
    /\ (/\ chain.stage = "invoked" /\ PreChecksPass
        /\ Exposes(chain.sub) /\ GetsTo(old_subs, chain.pos))
         => /\ old_subs[chain.pos] = chain.sub
            /\ LET before == SelectSeq(SubSeq(old_subs, 1, chain.pos), Exposes)
               IN  /\ Len(calls) >= Len(before)
                   /\ SubSeq(calls, 1, Len(before)) = CallsTo(before, op.args)

C16_Witness ==
    /\ chain.stage = "invoked" /\ PreChecksPass
    /\ chain.pos = 2 /\ Len(old_subs) = 3
    /\ Len(calls) = 3 /\ calls[2][1] = chain.sub

----------------------------------------------------------------------------
(* C17 *)

\* C17: a remove (or remove operator) that returns deletes exactly the one
\* entry equal to s: count() drops by one, s is no longer registered, and
\* the other entries keep their order.
C17_RemoveDeletesOneEntry ==
    (IsRemoval /\ err = None)
        => /\ count = Len(old_subs) - 1
           /\ ~In(op.sub, _subs)
           /\ \E k \in 1..Len(old_subs) :
                 /\ old_subs[k] = op.sub
                 /\ _subs = [m \in 1..(Len(old_subs) - 1) |->
                                IF m < k THEN old_subs[m] ELSE old_subs[m + 1]]

C17_Witness ==
    /\ op.name = "remove" /\ err = None
    /\ Len(old_subs) = 3 /\ old_subs[2] = op.sub
    /\ _subs = <<old_subs[1], old_subs[3]>>

----------------------------------------------------------------------------
(* C18 *)

\* The registry of a RefEvent holds only admitted callables of the contract's
\* parameter count.
RegistryIsValidated ==
    \A k \in 1..Len(_subs) :
        /\ _subs[k] # None
        /\ IsCallable(_subs[k])
        /\ Len(Signature(_subs[k])) = Len(_param_types)

\* C18: in a RefEvent, after any sequence of add, insert, remove, operator
\* and invoke calls, every registry entry is a non-null callable whose
\* declared parameter count equals the length of the contract; and no
\* operation changes the contract.
C18_RefRegistryIsValidated ==
    /\ [](kind = "RefEvent" => RegistryIsValidated)
    /\ [][_param_types' = _param_types /\ kind' = kind]_vars

C18_Witness ==
    /\ kind = "RefEvent" /\ Len(_param_types) = 1
    /\ IsAdmission /\ ~IsCallable(op.sub) /\ err = SubscriberIsNotCallableError
    /\ count = 3

----------------------------------------------------------------------------
(* C19 *)

\* How many times the last invoke called the subscriber s.
TimesCalled(s) == Cardinality({j \in 1..Len(calls) : calls[j][1] = s})

\* Some callback of the last invoke called insert or remove on the dispatcher.
Reentered == \E j \in 1..Len(calls) : Mutates(calls[j][1])

\* C19: when a callback calls add, insert or remove on the dispatcher during
\* a fan-out that returns, every subscriber registered both when invoke
\* starts and when it returns is called exactly once by that invoke.
C19_ReentrantFanOutCallsEachOnce ==
    (IsInvoke /\ PreChecksPass /\ err = None /\ Reentered)
        => \A k \in 1..Len(old_subs) :
               (In(old_subs[k], _subs) /\ Exposes(old_subs[k]))
                   => TimesCalled(old_subs[k]) = 1

----------------------------------------------------------------------------
(* C20 *)

\* C20: as long as callbacks do not change the registry, an invoke calls
\* only subscribers registered at that moment, where the registered ones are
\* those whose last admission that returned has not been followed by a
\* removal that returned: the registry starts empty, a subscriber enters it
\* only by an add, insert or add operator of it that returns, and leaves it
\* only by a remove or remove operator of it that returns.  In particular
\* an invoke right after s was removed, or right after its admission was
\* refused, does not call s.
C20_OnlyRegisteredAreCalled ==
    /\ (IsInvoke /\ ~Reentered)
         => \A j \in 1..Len(calls) : In(calls[j][1], old_subs)
    /\ ~(IsInvoke /\ Reentered)
         => \A s \in Subscribers :
               /\ (In(s, _subs) /\ ~In(s, old_subs))
                    => (IsAdmission /\ op.sub = s /\ err = None)
               /\ (In(s, old_subs) /\ ~In(s, _subs))
                    => (IsRemoval /\ op.sub = s /\ err = None)
    /\ (chain.stage = "invoked_without" /\ ~Reentered)
         => (~In(chain.sub, old_subs) /\ TimesCalled(chain.sub) = 0)

C20_Witness ==
    /\ chain.stage = "invoked_without" /\ ~Reentered
    /\ PreChecksPass /\ err = None
    /\ Exposes(chain.sub)
    /\ Len(calls) = 2 /\ count = 2

====
